---------------------------- MODULE Spec2Model ----------------------------
(***************************************************************************)
(* Model of the planning core of xbps: the repository pool                 *)
(* (lib/repository_pool.c) and the transaction dictionary                  *)
(* (lib/transaction_dictionary.c).                                         *)
(*                                                                         *)
(* The handle (struct xbps_handle) is the state: cfg, repo_pool, transd.   *)
(* The library is single threaded: one call runs at a time.  The calls of  *)
(* the repository pool are atomic actions; xbps_transaction_prepare is a   *)
(* sequence of steps (one per phase, one per loop iteration) driven by pc, *)
(* and no other call starts while pc is not "idle".                        *)
(***************************************************************************)
EXTENDS Integers, Sequences, FiniteSets, TLC

(***************************************************************************)
(* Bounds of the model.                                                    *)
(***************************************************************************)
\* longest list of configured repositories
MaxRepos == 3
\* most packages the caller queues in unsorted_deps before a prepare
MaxRequests == 2
\* most runs of xbps_transaction_prepare in one behaviour
MaxPrepares == 2

(***************************************************************************)
(* errno values (errno.h) and libfetch codes used by the two files.        *)
(***************************************************************************)
ENOENT == 2
ENXIO == 6
EAGAIN == 11
ENOMEM == 12
ENODEV == 19
EINVAL == 22
ENOSPC == 28
ENOTSUP == 95
FETCH_UNAVAIL == 16

(***************************************************************************)
(* uint64_t: four 16-bit limbs, least significant first, so that the       *)
(* arithmetic is exactly that of the 64-bit unsigned variables             *)
(* (tsize, dlsize, instsize, rmsize, rootdir_free_size).                   *)
(***************************************************************************)
LimbBase == 65536
NLimbs == 4

U64(n) == << n % LimbBase, (n \div LimbBase) % LimbBase, 0, 0 >>

RECURSIVE AddLimbs(_, _, _, _)
AddLimbs(a, b, k, carry) ==
    IF k > NLimbs THEN << >>
    ELSE LET s == a[k] + b[k] + carry
         IN  << s % LimbBase >> \o AddLimbs(a, b, k + 1, s \div LimbBase)

\* a + b modulo 2^64
Add64(a, b) == AddLimbs(a, b, 1, 0)

RECURSIVE SubLimbs(_, _, _, _)
SubLimbs(a, b, k, borrow) ==
    IF k > NLimbs THEN << >>
    ELSE LET d == a[k] - b[k] - borrow
         IN  IF d < 0
             THEN << d + LimbBase >> \o SubLimbs(a, b, k + 1, 1)
             ELSE << d >> \o SubLimbs(a, b, k + 1, 0)

\* a - b modulo 2^64
Sub64(a, b) == SubLimbs(a, b, 1, 0)

RECURSIVE GtLimbs(_, _, _)
GtLimbs(a, b, k) ==
    IF k < 1 THEN FALSE
    ELSE IF a[k] # b[k] THEN a[k] > b[k]
    ELSE GtLimbs(a, b, k - 1)

\* a > b on unsigned 64-bit values
Gt64(a, b) == GtLimbs(a, b, NLimbs)

RECURSIVE MulSmall64(_, _)
\* a * n modulo 2^64, n a small natural (double and add)
MulSmall64(a, n) ==
    IF n = 0 THEN U64(0)
    ELSE LET h == MulSmall64(Add64(a, a), n \div 2)
         IN  IF n % 2 = 1 THEN Add64(a, h) ELSE h

(***************************************************************************)
(* Repositories.  A repository is named by its URI; R1 is the one          *)
(* xbps_repository_is_remote() accepts.  RepoIndex is the package index a  *)
(* repository publishes.                                                   *)
(***************************************************************************)
R1 == "http://repo1"
R2 == "/repo2"
R3 == "/repo3"
Repos == {R1, R2, R3}

xbps_repository_is_remote(repo) == repo \in {R1}

RepoIndex(uri) ==
    CASE uri = R1 -> {"A", "D", "E", "M"}
      [] uri = R2 -> {"B", "E"}
      [] uri = R3 -> {"C"}
      [] OTHER    -> {}

RECURSIVE SeqsUpTo(_, _)
SeqsUpTo(S, n) ==
    IF n = 0 THEN { << >> }
    ELSE LET shorter == SeqsUpTo(S, n - 1)
         IN  shorter \cup { Append(s, x) : s \in shorter, x \in S }

(***************************************************************************)
(* The handle.                                                             *)
(***************************************************************************)
VARIABLES
    cfg,        \* xhp->cfg: [null, repositories]
    disk,       \* URIs whose package index file is on disk and parsable
    repo_pool,  \* xhp->repo_pool: [null, entries, immutable]
    transd,     \* xhp->transd (the transaction dictionary)
    pc,         \* "idle", the phase xbps_transaction_prepare is in, or "done"
                \* when a call has ended and its caller has not gone on yet
    idx,        \* loop index of the running phase
    acc,        \* locals of compute_transaction_stats
    nprep,      \* number of xbps_transaction_prepare calls so far
    ret,        \* while pc = "done": the call that ended and what it returns
    prev        \* what the last xbps_transaction_prepare returned: [rv, phase]

vars == << cfg, disk, repo_pool, transd, pc, idx, acc, nprep, ret, prev >>

NullPool == [null |-> TRUE, entries |-> << >>, immutable |-> FALSE]
NullCfg == [null |-> TRUE, repositories |-> << >>]

Ret(op, rv, phase, log, input) ==
    [op |-> op, rv |-> rv, phase |-> phase, log |-> log, input |-> input]

NoRet == Ret("none", 0, "", << >>, << >>)
NoPrev == [rv |-> 0, phase |-> "none"]


(***************************************************************************)
(* lib/repository_pool.c                                                   *)
(***************************************************************************)

\* xbps_rpool_release: every entry is unregistered and the handle is nulled
xbps_rpool_release(pool) ==
    IF pool.null THEN pool ELSE NullPool

\* an allocation or registration step of xbps_rpool_init that can fail:
\* "create" is prop_array_create() of the pool; the others happen for the
\* configured repository number `at'
NoFault == [at |-> 0, kind |-> "none"]
InitFaults(n) ==
    {NoFault, [at |-> 0, kind |-> "create"]}
    \cup { [at |-> i, kind |-> k] :
             i \in 1..n, k \in {"plist", "dict", "uri", "index", "add"} }

\* the error code of a failing step (for "plist" it is errno after a failed
\* allocation of the index path)
rpool_fault_rv(kind) ==
    CASE kind = "plist" -> ENOMEM
      [] kind = "dict"  -> ENOMEM
      [] OTHER          -> EINVAL

rpool_init_missing_never(repouri, dsk) == FALSE

\* array == NULL: the index of repouri "cannot be internalized" (lines 71-78)
rpool_init_missing(repouri, dsk) == repouri \notin dsk

RECURSIVE rpool_init_loop(_, _, _, _, _, _, _)
\* the for loop of xbps_rpool_init; returns the locals at the end of the loop
\* or at the goto out
rpool_init_loop(repos, dsk, fault, i, entries, ntotal, nmissing) ==
    IF i > Len(repos)
    THEN [rv |-> 0, entries |-> entries, ntotal |-> ntotal, nmissing |-> nmissing]
    ELSE LET repouri == repos[i]
             hit == fault.at = i
         IN  IF hit /\ fault.kind = "plist"
             THEN [rv |-> rpool_fault_rv("plist"), entries |-> entries,
                   ntotal |-> ntotal + 1, nmissing |-> nmissing]
             ELSE IF rpool_init_missing(repouri, dsk)
             THEN rpool_init_loop(repos, dsk, fault, i + 1, entries,
                                  ntotal + 1, nmissing + 1)
             ELSE IF hit /\ fault.kind \in {"dict", "uri", "index", "add"}
             THEN [rv |-> rpool_fault_rv(fault.kind), entries |-> entries,
                   ntotal |-> ntotal + 1, nmissing |-> nmissing]
             ELSE rpool_init_loop(repos, dsk, fault, i + 1,
                      Append(entries, [uri |-> repouri, index |-> RepoIndex(repouri)]),
                      ntotal + 1, nmissing)

\* "no repositories available, error out"
rpool_init_floor(rv, ntotal, nmissing) ==
    IF rv = 0 /\ ntotal - nmissing = 0 THEN ENOTSUP ELSE rv

rpool_init_out_keep(rv, pool) == pool

\* the out: label
rpool_init_out(rv, pool) ==
    IF rv # 0 THEN xbps_rpool_release(pool) ELSE pool

rpool_init_exists_never(pool) == FALSE

\* if (xhp->repo_pool != NULL) return 0;
rpool_init_exists(pool) == ~pool.null

\* xbps_rpool_init: [rv, pool, built]; built is the array as it was when the
\* out: label was reached
xbps_rpool_init(pool, c, dsk, fault) ==
    IF rpool_init_exists(pool) THEN [rv |-> 0, pool |-> pool, built |-> pool.entries]
    ELSE IF c.null THEN [rv |-> ENOTSUP, pool |-> pool, built |-> << >>]
    ELSE IF fault.kind = "create"
    THEN [rv |-> ENOMEM, pool |-> NullPool, built |-> << >>]
    ELSE LET l == rpool_init_loop(c.repositories, dsk, fault, 1, << >>, 0, 0)
             rv == rpool_init_floor(l.rv, l.ntotal, l.nmissing)
             made == [null |-> FALSE, entries |-> l.entries, immutable |-> rv = 0]
         IN  [rv |-> rv, pool |-> rpool_init_out(rv, made), built |-> l.entries]

\* what one repository's fetches do in xbps_rpool_sync
SyncOutcomes ==
    { [index |-> TRUE,  files |-> TRUE,  fetchLastErrCode |-> 0, errno |-> 0],
      [index |-> FALSE, files |-> TRUE,  fetchLastErrCode |-> FETCH_UNAVAIL, errno |-> 0],
      [index |-> TRUE,  files |-> FALSE, fetchLastErrCode |-> 0, errno |-> ENOENT] }

NoUri == "(null)"
SyncArgs == {NoUri, "/elsewhere"} \cup Repos

\* rv = fetchLastErrCode != 0 ? fetchLastErrCode : errno
rpool_sync_errcode(o) ==
    IF o.fetchLastErrCode # 0 THEN o.fetchLastErrCode ELSE o.errno

rpool_sync_selected_all(uri, repouri) == TRUE

\* "If argument was set just process that repository"
rpool_sync_selected(uri, repouri) ==
    ~(uri # NoUri /\ repouri # uri)

rpool_sync_rv_reset(rv, failed, code) == IF failed THEN code ELSE 0

\* rv after one repository: set on a failed fetch, kept otherwise
rpool_sync_rv(rv, failed, code) == IF failed THEN code ELSE rv

RECURSIVE rpool_sync_loop(_, _, _, _, _, _, _)
\* the for loop of xbps_rpool_sync; log is the list of fetches made and got
\* the repositories whose package index was fetched
rpool_sync_loop(repos, uri, out, i, rv, log, got) ==
    IF i > Len(repos) THEN [rv |-> rv, log |-> log, got |-> got]
    ELSE LET repouri == repos[i]
             o == out[i]
         IN  IF ~rpool_sync_selected(uri, repouri)
             THEN rpool_sync_loop(repos, uri, out, i + 1, rv, log, got)
             ELSE IF ~o.index
             THEN rpool_sync_loop(repos, uri, out, i + 1,
                      rpool_sync_rv(rv, TRUE, rpool_sync_errcode(o)),
                      Append(log, << i, "index" >>), got)
             ELSE rpool_sync_loop(repos, uri, out, i + 1,
                      rpool_sync_rv(rv, ~o.files, rpool_sync_errcode(o)),
                      log \o << << i, "index" >>, << i, "files" >> >>,
                      got \cup {repouri})

\* what the callback of xbps_rpool_foreach does on one entry
CbResults ==
    { [rv |-> 0, done |-> FALSE], [rv |-> 0, done |-> TRUE],
      [rv |-> ENOENT, done |-> FALSE], [rv |-> ENOENT, done |-> TRUE] }

rpool_foreach_init_failed_never(rv) == FALSE

\* if ((rv = xbps_rpool_init(xhp)) != 0) ... return rv;
rpool_foreach_init_failed(rv) == rv # 0

rpool_foreach_break_rv(rv, done) == rv # 0

\* if (rv != 0 || done) break;
rpool_foreach_break(rv, done) == rv # 0 \/ done

RECURSIVE rpool_foreach_loop(_, _, _, _, _)
\* the for loop of xbps_rpool_foreach; log is the list of entries visited
rpool_foreach_loop(entries, cb, i, rv, log) ==
    IF i > Len(entries) THEN [rv |-> rv, log |-> log]
    ELSE LET r == cb[i]
             visited == Append(log, i)
         IN  IF rpool_foreach_break(r.rv, r.done)
             THEN [rv |-> r.rv, log |-> visited]
             ELSE rpool_foreach_loop(entries, cb, i + 1, r.rv, visited)

Idle == pc = "idle"

\* the steps that can fail in a run of xbps_rpool_init from this state: none
\* when it returns at once (lines 52-55)
RelevantFaults ==
    IF repo_pool.null /\ ~cfg.null
    THEN InitFaults(Len(cfg.repositories)) ELSE {NoFault}

TxnUnchanged == UNCHANGED << transd, idx, acc, nprep, prev >>

\* a call of xbps_rpool_init(xhp)
RpoolInit ==
    /\ Idle
    /\ pc' = "done"
    /\ \E fault \in RelevantFaults :
          LET r == xbps_rpool_init(repo_pool, cfg, disk, fault)
          IN  /\ repo_pool' = r.pool
              /\ ret' = Ret("xbps_rpool_init", r.rv, "", r.built,
                            [fault |-> fault, was_null |-> repo_pool.null])
    /\ UNCHANGED << cfg, disk >>
    /\ TxnUnchanged

\* a call of xbps_rpool_sync(uri)
RpoolSync ==
    /\ Idle
    /\ pc' = "done"
    /\ \E uri \in SyncArgs :
          IF cfg.null
          THEN /\ ret' = Ret("xbps_rpool_sync", ENOTSUP, "", << >>,
                             [uri |-> uri, out |-> << >>])
               /\ disk' = disk
          ELSE \E out \in [1..Len(cfg.repositories) -> SyncOutcomes] :
                  LET r == rpool_sync_loop(cfg.repositories, uri, out, 1, 0,
                                           << >>, {})
                  IN  /\ ret' = Ret("xbps_rpool_sync", r.rv, "", r.log,
                                    [uri |-> uri, out |-> out])
                      /\ disk' = disk \cup r.got
    /\ UNCHANGED << cfg, repo_pool >>
    /\ TxnUnchanged

\* a call of xbps_rpool_foreach(fn, arg)
RpoolForeach ==
    /\ Idle
    /\ pc' = "done"
    /\ \E fault \in RelevantFaults :
          LET r == xbps_rpool_init(repo_pool, cfg, disk, fault)
          IN  /\ repo_pool' = r.pool
              /\ IF rpool_foreach_init_failed(r.rv)
                 THEN ret' = Ret("xbps_rpool_foreach", r.rv, "init", << >>,
                                 [cb |-> << >>, was_null |-> repo_pool.null,
                                  fault |-> fault])
                 ELSE \E cb \in [1..Len(r.pool.entries) -> CbResults] :
                         LET f == rpool_foreach_loop(r.pool.entries, cb, 1, 0, << >>)
                         IN  ret' = Ret("xbps_rpool_foreach", f.rv, "loop", f.log,
                                        [cb |-> cb, was_null |-> repo_pool.null,
                                         fault |-> fault])
    /\ UNCHANGED << cfg, disk >>
    /\ TxnUnchanged


(***************************************************************************)
(* Packages.  An optional uint64 key of a dictionary is [has, val].        *)
(* PkgRecord is what the repositories publish for a package, PkgDb the     *)
(* metadata of the installed packages (xbps_pkgdb_get_pkg_metadata).       *)
(* A package without files (M, L) has no "installed_size" key.             *)
(***************************************************************************)
Some64(n) == [has |-> TRUE, val |-> U64(n)]
None64 == [has |-> FALSE, val |-> U64(0)]

PkgRecord(name) ==
    CASE name = "A" -> [installed_size |-> Some64(1000), filename_size |-> Some64(2048),
                        run_depends |-> << "B" >>, conflicts |-> << >>]
      [] name = "B" -> [installed_size |-> Some64(400), filename_size |-> Some64(300),
                        run_depends |-> << "C" >>, conflicts |-> << >>]
      [] name = "C" -> [installed_size |-> Some64(600), filename_size |-> Some64(500),
                        run_depends |-> << >>, conflicts |-> << >>]
      [] name = "D" -> [installed_size |-> Some64(600), filename_size |-> Some64(700),
                        run_depends |-> << "X" >>, conflicts |-> << >>]
      [] name = "E" -> [installed_size |-> Some64(400), filename_size |-> Some64(2048),
                        run_depends |-> << >>, conflicts |-> << "C" >>]
      [] name = "M" -> [installed_size |-> None64, filename_size |-> Some64(100),
                        run_depends |-> << >>, conflicts |-> << >>]
      [] OTHER      -> [installed_size |-> None64, filename_size |-> None64,
                        run_depends |-> << >>, conflicts |-> << >>]

Installed == {"E", "F", "G", "L", "M"}

\* xbps_pkgdb_get_pkg_metadata: [found, installed_size]
xbps_pkgdb_get_pkg_metadata(pkgname) ==
    CASE pkgname = "E" -> [found |-> TRUE, installed_size |-> Some64(400)]
      [] pkgname = "F" -> [found |-> TRUE, installed_size |-> Some64(400)]
      [] pkgname = "G" -> [found |-> TRUE, installed_size |-> Some64(1000)]
      [] pkgname = "L" -> [found |-> TRUE, installed_size |-> None64]
      [] pkgname = "M" -> [found |-> TRUE, installed_size |-> None64]
      [] OTHER         -> [found |-> FALSE, installed_size |-> None64]

\* the installed packages that need the installed package pkgname
InstalledRevdeps(pkgname) == IF pkgname = "L" THEN << "G" >> ELSE << >>

\* xbps_binpkg_exists: the binary packages present in the local cache
xbps_binpkg_exists(obj) == obj.pkgver \in {"A"}

\* what a caller can queue: (package, action, preserve)
Requests ==
    { [pkgver |-> "A", transaction |-> "install", preserve |-> FALSE],
      [pkgver |-> "B", transaction |-> "install", preserve |-> FALSE],
      [pkgver |-> "D", transaction |-> "install", preserve |-> FALSE],
      [pkgver |-> "E", transaction |-> "install", preserve |-> FALSE],
      [pkgver |-> "E", transaction |-> "update", preserve |-> FALSE],
      [pkgver |-> "E", transaction |-> "update", preserve |-> TRUE],
      [pkgver |-> "M", transaction |-> "update", preserve |-> FALSE],
      [pkgver |-> "F", transaction |-> "remove", preserve |-> FALSE],
      [pkgver |-> "G", transaction |-> "remove", preserve |-> FALSE],
      [pkgver |-> "L", transaction |-> "remove", preserve |-> FALSE],
      [pkgver |-> "Z", transaction |-> "remove", preserve |-> FALSE],
      [pkgver |-> "F", transaction |-> "configure", preserve |-> FALSE] }

\* a transaction entry (an object of "unsorted_deps" and of "packages")
Entry(name, tract, preserve, repo, automatic) ==
    [pkgver |-> name, transaction |-> tract, repository |-> repo,
     installed_size |-> PkgRecord(name).installed_size,
     filename_size |-> PkgRecord(name).filename_size,
     run_depends |-> IF tract \in {"install", "update"}
                     THEN PkgRecord(name).run_depends ELSE << >>,
     conflicts |-> IF tract \in {"install", "update"}
                   THEN PkgRecord(name).conflicts ELSE << >>,
     preserve |-> preserve, download |-> FALSE, automatic |-> automatic]

(***************************************************************************)
(* The transaction dictionary: arr maps the array keys that are set to     *)
(* their arrays, cnt and sz the uint32 and uint64 keys that are set to     *)
(* their values.                                                           *)
(***************************************************************************)
EmptyDict == [k \in {} |-> 0]

NullTransd ==
    [null |-> TRUE, immutable |-> FALSE, arr |-> EmptyDict,
     cnt |-> EmptyDict, sz |-> EmptyDict]

DictSet(d, key, val) ==
    [k \in DOMAIN d \cup {key} |-> IF k = key THEN val ELSE d[k]]

DictRemove(d, key) == [k \in DOMAIN d \ {key} |-> d[k]]

\* xbps_dictionary_get of an array; xbps_array_count(NULL) is 0
GetArray(td, key) ==
    IF key \in DOMAIN td.arr THEN td.arr[key] ELSE << >>

SetArray(td, key, val) == [td EXCEPT !.arr = DictSet(@, key, val)]

\* xbps_dictionary_remove
xbps_dictionary_remove(td, key) == [td EXCEPT !.arr = DictRemove(@, key)]

\* xbps_object_release(xhp->transd); xhp->transd = NULL;
transd_release(td) == NullTransd

Names(array) == { array[k].pkgver : k \in 1..Len(array) }


(***************************************************************************)
(* The phases of xbps_transaction_prepare that live in other files of the  *)
(* library: dependency resolution, reverse dependencies, conflicts and     *)
(* sorting.                                                                *)
(***************************************************************************)
RECURSIVE PoolProviderFrom(_, _, _)
PoolProviderFrom(entries, name, k) ==
    IF k > Len(entries) THEN NoUri
    ELSE IF name \in entries[k].index THEN entries[k].uri
    ELSE PoolProviderFrom(entries, name, k + 1)

\* the first repository of the pool, in pool order, that publishes name
PoolProvider(pool, name) == PoolProviderFrom(pool.entries, name, 1)

RECURSIVE find_deps_from(_, _, _, _, _)
find_deps_from(unsorted, missing, deps, pool, k) ==
    IF k > Len(deps) THEN [unsorted |-> unsorted, missing |-> missing]
    ELSE LET dep == deps[k]
             repo == PoolProvider(pool, dep)
         IN  IF dep \in Names(unsorted)
             THEN find_deps_from(unsorted, missing, deps, pool, k + 1)
             ELSE IF repo # NoUri
             THEN find_deps_from(
                      Append(unsorted, Entry(dep, "install", FALSE, repo, TRUE)),
                      missing, deps, pool, k + 1)
             ELSE find_deps_from(unsorted, Append(missing, dep), deps, pool, k + 1)

\* xbps_repository_find_deps(xhp, array, obj): every dependency of obj is
\* appended to unsorted_deps when the pool provides it and it is not queued
\* yet, and to missing_deps when no repository of the pool provides it
xbps_repository_find_deps(td, pool, obj) ==
    LET r == find_deps_from(GetArray(td, "unsorted_deps"),
                            GetArray(td, "missing_deps"),
                            obj.run_depends, pool, 1)
    IN  SetArray(SetArray(td, "unsorted_deps", r.unsorted),
                 "missing_deps", r.missing)

RECURSIVE revdeps_from(_, _, _)
revdeps_from(unsorted, missing, k) ==
    IF k > Len(unsorted) THEN missing
    ELSE LET obj == unsorted[k]
             removed == { unsorted[j].pkgver : j \in
                            { n \in 1..Len(unsorted) :
                                unsorted[n].transaction = "remove" } }
             deps == InstalledRevdeps(obj.pkgver)
             broken == SelectSeq(deps, LAMBDA q : q \notin removed)
         IN  IF obj.transaction = "remove"
             THEN revdeps_from(unsorted, missing \o broken, k + 1)
             ELSE revdeps_from(unsorted, missing, k + 1)

\* xbps_transaction_revdeps(xhp): an installed package that needs a package
\* being removed, and is not removed itself, goes to missing_deps
xbps_transaction_revdeps(td) ==
    SetArray(td, "missing_deps",
             revdeps_from(GetArray(td, "unsorted_deps"),
                          GetArray(td, "missing_deps"), 1))

\* xbps_pkg_find_conflicts(xhp, array, obj): each package obj conflicts with
\* that is queued (not for removal), or installed and not queued for removal
xbps_pkg_find_conflicts(td, obj) ==
    LET unsorted == GetArray(td, "unsorted_deps")
        removed == { unsorted[j].pkgver : j \in
                       { n \in 1..Len(unsorted) :
                           unsorted[n].transaction = "remove" } }
        queued == Names(unsorted) \ removed
        hits == SelectSeq(obj.conflicts,
                    LAMBDA c : c \in queued \/ (c \in Installed /\ c \notin removed))
    IN  SetArray(td, "conflicts", GetArray(td, "conflicts") \o hits)

RECURSIVE find_conflicts_loop(_, _)
\* for (i = 0; i < xbps_array_count(array); i++) xbps_pkg_find_conflicts(...)
find_conflicts_loop(td, i) ==
    IF i > Len(GetArray(td, "unsorted_deps")) THEN td
    ELSE find_conflicts_loop(
             xbps_pkg_find_conflicts(td, GetArray(td, "unsorted_deps")[i]), i + 1)

\* x has to come before y in "packages"
SortBefore(x, y) ==
    /\ y.transaction \in {"install", "update"}
    /\ \E k \in 1..Len(y.run_depends) : y.run_depends[k] = x.pkgver

RemoveAt(seq, k) == SubSeq(seq, 1, k - 1) \o SubSeq(seq, k + 1, Len(seq))

RECURSIVE sort_from(_, _)
sort_from(left, sorted) ==
    IF left = << >> THEN [rv |-> 0, packages |-> sorted]
    ELSE LET ready == { k \in 1..Len(left) :
                          \A j \in 1..Len(left) : ~SortBefore(left[j], left[k]) }
         IN  IF ready = {} THEN [rv |-> EINVAL, packages |-> sorted]
             ELSE LET k == CHOOSE m \in ready : \A n \in ready : m <= n
                  IN  sort_from(RemoveAt(left, k), Append(sorted, left[k]))

\* xbps_transaction_sort(xhp): "packages" is unsorted_deps in an order where
\* every dependency comes before the package that needs it, ties in the order
\* of discovery
xbps_transaction_sort(td) ==
    LET r == sort_from(GetArray(td, "unsorted_deps"), << >>)
    IN  [rv |-> r.rv,
         td |-> IF r.rv = 0 THEN SetArray(td, "packages", r.packages) ELSE td]

(***************************************************************************)
(* lib/transaction_dictionary.c: compute_transaction_stats                 *)
(***************************************************************************)
\* "signature file: 512 bytes"
SignatureSize == 512

\* xbps_dictionary_get_uint64(obj, key, &tsize): tsize is written only when
\* the key is there
dictionary_get_uint64(field, tsize) ==
    IF field.has THEN field.val ELSE tsize

\* the locals after line 68
StatsZero ==
    [inst_pkgcnt |-> 0, up_pkgcnt |-> 0, cf_pkgcnt |-> 0, rm_pkgcnt |-> 0,
     dl_pkgcnt |-> 0, tsize |-> U64(0), dlsize |-> U64(0),
     instsize |-> U64(0), rmsize |-> U64(0),
     svfs |-> [called |-> FALSE, ok |-> FALSE, f_bavail |-> U64(0),
               f_bsize |-> 0]]

stats_needs_download_remote(obj) ==
    xbps_repository_is_remote(obj.repository)

\* xbps_repository_is_remote(repo) && !xbps_binpkg_exists(xhp, obj)
stats_needs_download(obj) ==
    xbps_repository_is_remote(obj.repository) /\ ~xbps_binpkg_exists(obj)

stats_count_noconfigure(a, tract) ==
    CASE tract = "install"   -> [a EXCEPT !.inst_pkgcnt = @ + 1]
      [] tract = "update"    -> [a EXCEPT !.up_pkgcnt = @ + 1]
      [] tract = "remove"    -> [a EXCEPT !.rm_pkgcnt = @ + 1]
      [] OTHER               -> a

\* the counters of lines 85-94
stats_count(a, tract) ==
    CASE tract = "configure" -> [a EXCEPT !.cf_pkgcnt = @ + 1]
      [] tract = "install"   -> [a EXCEPT !.inst_pkgcnt = @ + 1]
      [] tract = "update"    -> [a EXCEPT !.up_pkgcnt = @ + 1]
      [] tract = "remove"    -> [a EXCEPT !.rm_pkgcnt = @ + 1]
      [] OTHER               -> a

\* lines 96-113: the install and download sizes of one entry
stats_install(a, obj) ==
    LET a0 == [a EXCEPT !.tsize = U64(0)]
    IN  IF obj.transaction \in {"install", "update"}
        THEN LET t1 == dictionary_get_uint64(obj.installed_size, a0.tsize)
                 a1 == [a0 EXCEPT !.tsize = t1, !.instsize = Add64(@, t1)]
             IN  IF stats_needs_download(obj)
                 THEN LET t2 == Add64(dictionary_get_uint64(obj.filename_size, t1),
                                      U64(SignatureSize))
                      IN  [acc |-> [a1 EXCEPT !.tsize = t2,
                                              !.dlsize = Add64(@, t2),
                                              !.instsize = Add64(@, t2),
                                              !.dl_pkgcnt = @ + 1],
                           obj |-> [obj EXCEPT !.download = TRUE]]
                 ELSE [acc |-> a1, obj |-> obj]
        ELSE [acc |-> a0, obj |-> obj]

\* lines 118-131: the size of the installed package that goes away
stats_remove(a, obj) ==
    IF obj.transaction = "remove" \/ (obj.transaction = "update" /\ ~obj.preserve)
    THEN LET pkg_metad == xbps_pkgdb_get_pkg_metadata(obj.pkgver)
         IN  IF ~pkg_metad.found THEN a
             ELSE LET t == dictionary_get_uint64(pkg_metad.installed_size, a.tsize)
                  IN  [a EXCEPT !.tsize = t, !.rmsize = Add64(@, t)]
    ELSE a

\* one iteration of the while loop (lines 74-132): [acc, obj]
stats_entry(a, obj) ==
    IF obj.transaction = "configure"
    THEN [acc |-> stats_count(a, "configure"), obj |-> obj]
    ELSE LET i == stats_install(stats_count(a, obj.transaction), obj)
         IN  [acc |-> stats_remove(i.acc, i.obj), obj |-> i.obj]

stats_net_sum(instsize, rmsize) ==
    [instsize |-> instsize, rmsize |-> rmsize]

\* lines 135-143: the two totals are netted against each other
stats_net(instsize, rmsize) ==
    IF Gt64(instsize, rmsize)
    THEN [instsize |-> Sub64(instsize, rmsize), rmsize |-> U64(0)]
    ELSE IF Gt64(rmsize, instsize)
    THEN [instsize |-> U64(0), rmsize |-> Sub64(rmsize, instsize)]
    ELSE [instsize |-> U64(0), rmsize |-> U64(0)]

\* what statvfs(xhp->rootdir, &svfs) gives; called tells the locals after
\* the call from the locals of a run that never got to it
StatvfsResults ==
    { [called |-> TRUE, ok |-> FALSE, f_bavail |-> U64(0), f_bsize |-> 0],
      [called |-> TRUE, ok |-> TRUE, f_bavail |-> U64(500), f_bsize |-> 1],
      [called |-> TRUE, ok |-> TRUE, f_bavail |-> U64(700), f_bsize |-> 1],
      [called |-> TRUE, ok |-> TRUE, f_bavail |-> U64(300), f_bsize |-> 4],
      [called |-> TRUE, ok |-> TRUE, f_bavail |-> U64(0), f_bsize |-> 4096],
      [called |-> TRUE, ok |-> TRUE, f_bavail |-> U64(250000), f_bsize |-> 4096] }

stats_statvfs_failed_never(svfs) == FALSE

\* statvfs(xhp->rootdir, &svfs) == -1
stats_statvfs_failed(svfs) == ~svfs.ok

\* svfs.f_bavail * svfs.f_bsize
statvfs_free_bytes(svfs) == MulSmall64(svfs.f_bavail, svfs.f_bsize)

\* lines 176-183: [rootdir_free_size, rv]
stats_space(free_bytes, instsize) ==
    LET rootdir_free_size == Sub64(free_bytes, instsize)
    IN  [rootdir_free_size |-> rootdir_free_size,
         rv |-> IF Gt64(instsize, rootdir_free_size) THEN ENOSPC ELSE 0]

\* lines 145-168: the counts and the sizes are set in the dictionary
stats_record(td, a, net) ==
    [td EXCEPT
       !.cnt = [k \in {"total-install-pkgs", "total-update-pkgs",
                       "total-configure-pkgs", "total-remove-pkgs",
                       "total-download-pkgs"} |->
                  CASE k = "total-install-pkgs"   -> a.inst_pkgcnt
                    [] k = "total-update-pkgs"    -> a.up_pkgcnt
                    [] k = "total-configure-pkgs" -> a.cf_pkgcnt
                    [] k = "total-remove-pkgs"    -> a.rm_pkgcnt
                    [] OTHER                      -> a.dl_pkgcnt],
       !.sz = [k \in {"total-installed-size", "total-download-size",
                      "total-removed-size"} |->
                  CASE k = "total-installed-size" -> net.instsize
                    [] k = "total-download-size"  -> a.dlsize
                    [] OTHER                      -> net.rmsize]]


(***************************************************************************)
(* lib/transaction_dictionary.c: xbps_transaction_init                     *)
(***************************************************************************)
\* the allocation (xbps_dictionary_create, xbps_array_create) or the
\* xbps_dictionary_set that fails in xbps_transaction_init
TxInitFaults ==
    {"none", "dict", "array1", "set1", "array2", "set2", "array3", "set3"}

NewTransd ==
    [null |-> FALSE, immutable |-> FALSE,
     arr |-> [k \in {"unsorted_deps", "missing_deps", "conflicts"} |-> << >>],
     cnt |-> EmptyDict, sz |-> EmptyDict]

transaction_init_exists_never(td) == FALSE

\* if (xhp->transd != NULL) return 0;
transaction_init_exists(td) == ~td.null

\* xbps_transaction_init: [rv, td]
xbps_transaction_init(td, fault) ==
    IF transaction_init_exists(td) THEN [rv |-> 0, td |-> td]
    ELSE IF fault \in {"dict", "array1", "array2", "array3"}
    THEN [rv |-> ENOMEM, td |-> NullTransd]
    ELSE IF fault \in {"set1", "set2", "set3"}
    THEN [rv |-> EINVAL, td |-> NullTransd]
    ELSE [rv |-> 0, td |-> NewTransd]

PoolUnchanged == UNCHANGED << cfg, disk, repo_pool, prev >>

\* a call of xbps_transaction_init(xhp)
TransactionInit ==
    /\ Idle
    /\ pc' = "done"
    /\ \E fault \in (IF transd.null THEN TxInitFaults ELSE {"none"}) :
          LET r == xbps_transaction_init(transd, fault)
          IN  /\ transd' = r.td
              /\ ret' = Ret("xbps_transaction_init", r.rv, "", << >>,
                            [fault |-> fault, was_null |-> transd.null])
    /\ UNCHANGED << idx, acc, nprep >>
    /\ PoolUnchanged

Requested(array) ==
    { k \in 1..Len(array) : ~array[k].automatic }

\* the caller queues a package in unsorted_deps; a package to install or to
\* update was looked up in the pool, which names its repository
QueuePkg ==
    /\ Idle
    /\ pc' = "done"
    /\ ~transd.null /\ ~transd.immutable
    /\ "unsorted_deps" \in DOMAIN transd.arr
    /\ Cardinality(Requested(transd.arr["unsorted_deps"])) < MaxRequests
    /\ \E rq \in Requests :
          LET array == transd.arr["unsorted_deps"]
              repo == IF rq.transaction \in {"install", "update"}
                      THEN PoolProvider(repo_pool, rq.pkgver) ELSE NoUri
          IN  /\ rq.pkgver \notin Names(array)
              /\ rq.transaction \in {"install", "update"} => repo # NoUri
              /\ transd' = SetArray(transd, "unsorted_deps",
                     Append(array, Entry(rq.pkgver, rq.transaction,
                                         rq.preserve, repo, FALSE)))
              /\ ret' = Ret("queue", 0, "", << >>, rq)
    /\ UNCHANGED << idx, acc, nprep >>
    /\ PoolUnchanged

(***************************************************************************)
(* lib/transaction_dictionary.c: xbps_transaction_prepare                  *)
(***************************************************************************)
LoopStart == [i |-> 1, n |-> 0]

\* xbps_transaction_prepare returns rv from the phase `phase'
PrepReturn(rv, phase) ==
    /\ pc' = "done"
    /\ idx' = LoopStart
    /\ acc' = StatsZero
    /\ ret' = Ret("xbps_transaction_prepare", rv, phase, << >>, acc')

prepare_bail_release(td) == transd_release(td)

\* a return that leaves xhp->transd as it is (lines 254, 262, 272, 283)
prepare_bail(td) == td

prepare_fail_keep(td) == td

\* xbps_object_release(xhp->transd); xhp->transd = NULL; (lines 278, 289, 299)
prepare_fail(td) == transd_release(td)

prepare_deps_cond_fixed(i, count, count0) == i <= count0

\* i < xbps_array_count(array), the count read again on every iteration
\* (i counts from 1 here); count0 is the count when the loop began
prepare_deps_cond(i, count, count0) == i <= count

prepare_no_transd_never(td) == FALSE

\* if (xhp->transd == NULL) return ENXIO;
prepare_no_transd(td) == td.null

prepare_missing_cond_never(count) == FALSE

\* if (xbps_array_count(array)) return ENODEV;
prepare_missing_cond(count) == count # 0

\* lines 245-246 and the start of the first loop
PrepStart ==
    /\ Idle
    /\ nprep < MaxPrepares
    /\ ~transd.immutable
    /\ nprep' = nprep + 1
    /\ IF prepare_no_transd(transd)
       THEN /\ pc' = "done"
            /\ ret' = Ret("xbps_transaction_prepare", ENXIO, "ENTRY", << >>, acc)
            /\ idx' = idx
       ELSE /\ pc' = "RESOLVE_DEPS"
            /\ idx' = [i |-> 1, n |-> Len(GetArray(transd, "unsorted_deps"))]
            /\ ret' = ret
    /\ UNCHANGED << transd, acc >>
    /\ PoolUnchanged

\* lines 251-255: one iteration of the loop over unsorted_deps, or its end
PrepResolveDeps ==
    /\ pc = "RESOLVE_DEPS"
    /\ LET array == GetArray(transd, "unsorted_deps")
       IN  IF prepare_deps_cond(idx.i, Len(array), idx.n)
           THEN \E rv \in {0, ENOMEM} :
                   IF rv # 0
                   THEN /\ transd' = prepare_bail(transd)
                        /\ PrepReturn(rv, "RESOLVE_DEPS")
                   ELSE /\ transd' = xbps_repository_find_deps(transd, repo_pool,
                                                               array[idx.i])
                        /\ idx' = [idx EXCEPT !.i = @ + 1]
                        /\ UNCHANGED << pc, acc, ret >>
           ELSE /\ pc' = "CHECK_MISSING"
                /\ UNCHANGED << transd, idx, acc, ret >>
    /\ UNCHANGED nprep
    /\ PoolUnchanged

\* lines 259-262
PrepCheckMissing ==
    /\ pc = "CHECK_MISSING"
    /\ LET td == xbps_transaction_revdeps(transd)
       IN  IF prepare_missing_cond(Len(GetArray(td, "missing_deps")))
           THEN /\ transd' = prepare_bail(td)
                /\ PrepReturn(ENODEV, "CHECK_MISSING")
           ELSE /\ transd' = td
                /\ pc' = "DETECT_CONFLICTS"
                /\ UNCHANGED << idx, acc, ret >>
    /\ UNCHANGED nprep
    /\ PoolUnchanged

\* lines 264-266
PrepDetectConflicts ==
    /\ pc = "DETECT_CONFLICTS"
    /\ transd' = find_conflicts_loop(transd, 1)
    /\ pc' = "CHECK_CONFLICTS"
    /\ UNCHANGED << idx, acc, ret, nprep >>
    /\ PoolUnchanged

\* lines 270-272
PrepCheckConflicts ==
    /\ pc = "CHECK_CONFLICTS"
    /\ IF Len(GetArray(transd, "conflicts")) # 0
       THEN /\ transd' = prepare_bail(transd)
            /\ PrepReturn(EAGAIN, "CHECK_CONFLICTS")
       ELSE /\ pc' = "RESOLVE_REPLACEMENTS"
            /\ UNCHANGED << transd, idx, acc, ret >>
    /\ UNCHANGED nprep
    /\ PoolUnchanged

\* lines 277-281; no package of the model replaces another one, so that
\* xbps_transaction_package_replace changes nothing when it succeeds
PrepReplace ==
    /\ pc = "RESOLVE_REPLACEMENTS"
    /\ \E rv \in {0, EINVAL} :
          IF rv # 0
          THEN /\ transd' = prepare_fail(transd)
               /\ PrepReturn(rv, "RESOLVE_REPLACEMENTS")
          ELSE /\ pc' = "RESOLVE_SHLIBS"
               /\ UNCHANGED << transd, idx, acc, ret >>
    /\ UNCHANGED nprep
    /\ PoolUnchanged

\* lines 282-283; xbps_transaction_shlibs says whether a shared library is
\* left unresolved
PrepShlibs ==
    /\ pc = "RESOLVE_SHLIBS"
    /\ \E unresolved \in BOOLEAN :
          IF unresolved
          THEN /\ transd' = prepare_bail(transd)
               /\ PrepReturn(ENODEV, "RESOLVE_SHLIBS")
          ELSE /\ pc' = "TOPOSORT"
               /\ UNCHANGED << transd, idx, acc, ret >>
    /\ UNCHANGED nprep
    /\ PoolUnchanged

\* lines 288-292
PrepSort ==
    /\ pc = "TOPOSORT"
    /\ \E fault \in {0, ENOMEM} :
          LET r == IF fault # 0 THEN [rv |-> fault, td |-> transd]
                   ELSE xbps_transaction_sort(transd)
          IN  IF r.rv # 0
              THEN /\ transd' = prepare_fail(r.td)
                   /\ PrepReturn(r.rv, "TOPOSORT")
              ELSE /\ transd' = r.td
                   /\ pc' = "COMPUTE_STATS"
                   /\ idx' = LoopStart
                   /\ acc' = StatsZero
                   /\ UNCHANGED ret
    /\ UNCHANGED nprep
    /\ PoolUnchanged

\* compute_transaction_stats, lines 70-132: the iterator, then one entry of
\* "packages" per step
PrepStatsEntry ==
    /\ pc = "COMPUTE_STATS"
    /\ "packages" \notin DOMAIN transd.arr \/ idx.i <= Len(GetArray(transd, "packages"))
    /\ IF "packages" \notin DOMAIN transd.arr
       THEN /\ transd' = prepare_fail(transd)
            /\ PrepReturn(EINVAL, "COMPUTE_STATS")
       ELSE LET r == stats_entry(acc, transd.arr["packages"][idx.i])
            IN  /\ acc' = r.acc
                /\ transd' = SetArray(transd, "packages",
                       [transd.arr["packages"] EXCEPT ![idx.i] = r.obj])
                /\ idx' = [idx EXCEPT !.i = @ + 1]
                /\ UNCHANGED << pc, ret >>
    /\ UNCHANGED nprep
    /\ PoolUnchanged

\* compute_transaction_stats, lines 135-186: [rv, td]; setfail names the
\* xbps_dictionary_set_* that fails, if one does
stats_finish(td, a, svfs, setfail) ==
    LET net == stats_net(a.instsize, a.rmsize)
        td1 == stats_record(td, a, net)
        sp == stats_space(statvfs_free_bytes(svfs), net.instsize)
    IN  IF setfail = "stats" THEN [rv |-> EINVAL, td |-> td]
        ELSE IF stats_statvfs_failed(svfs) THEN [rv |-> 0, td |-> td1]
        ELSE IF setfail = "free" THEN [rv |-> EINVAL, td |-> td1]
        ELSE [rv |-> sp.rv,
              td |-> [td1 EXCEPT !.sz = DictSet(@, "disk-free-size",
                                                sp.rootdir_free_size)]]

\* what happens around the end of compute_transaction_stats: the result of
\* statvfs, and the xbps_dictionary_set_* that fails, if one does (the counts
\* and sizes before statvfs, disk-free-size after it)
StatsFinishInputs ==
    { [svfs |-> v, setfail |-> "none"] : v \in StatvfsResults }
    \cup { [svfs |-> StatsZero.svfs, setfail |-> "stats"],
           [svfs |-> [called |-> TRUE, ok |-> TRUE, f_bavail |-> U64(700),
                      f_bsize |-> 1],
            setfail |-> "free"] }

\* the end of compute_transaction_stats and lines 298-302
PrepStatsFinish ==
    /\ pc = "COMPUTE_STATS"
    /\ "packages" \in DOMAIN transd.arr
    /\ idx.i > Len(GetArray(transd, "packages"))
    /\ \E in \in StatsFinishInputs :
          LET svfs == in.svfs
              r == stats_finish(transd, acc, svfs, in.setfail)
              locals == [acc EXCEPT !.svfs = svfs]
          IN  IF r.rv # 0
              THEN /\ transd' = prepare_fail(r.td)
                   /\ pc' = "done"
                   /\ idx' = LoopStart
                   /\ acc' = StatsZero
                   /\ ret' = Ret("xbps_transaction_prepare", r.rv,
                                 "COMPUTE_STATS", << >>, locals)
              ELSE /\ transd' = r.td
                   /\ pc' = "FREEZE"
                   /\ acc' = locals
                   /\ UNCHANGED << idx, ret >>
    /\ UNCHANGED nprep
    /\ PoolUnchanged

\* lines 306-311
PrepFreeze ==
    /\ pc = "FREEZE"
    /\ transd' = [xbps_dictionary_remove(
                    xbps_dictionary_remove(
                      xbps_dictionary_remove(transd, "unsorted"),
                      "missing_deps"),
                    "conflicts") EXCEPT !.immutable = TRUE]
    /\ pc' = "done"
    /\ idx' = LoopStart
    /\ acc' = StatsZero
    /\ ret' = Ret("xbps_transaction_prepare", 0, "FREEZE", << >>, acc)
    /\ UNCHANGED nprep
    /\ PoolUnchanged

\* the call that ended returns to its caller; its locals are gone
Return ==
    /\ pc = "done"
    /\ pc' = "idle"
    /\ prev' = IF ret.op = "xbps_transaction_prepare"
               THEN [rv |-> ret.rv, phase |-> ret.phase] ELSE prev
    /\ ret' = NoRet
    /\ UNCHANGED << cfg, disk, repo_pool, transd, idx, acc, nprep >>

(***************************************************************************)
(* Specifications.                                                         *)
(***************************************************************************)
\* the lists of repositories a configuration can hold
CfgChoices ==
    {NullCfg} \cup
    { [null |-> FALSE, repositories |-> s] : s \in SeqsUpTo(Repos, MaxRepos) }

Init ==
    /\ cfg \in CfgChoices
    /\ disk \in SUBSET Repos
    /\ repo_pool = NullPool
    /\ transd = NullTransd
    /\ pc = "idle"
    /\ idx = LoopStart
    /\ acc = StatsZero
    /\ nprep = 0
    /\ ret = NoRet
    /\ prev = NoPrev

FullCfg == [null |-> FALSE, repositories |-> << R1, R2, R3 >>]

\* the transaction calls start on the three repositories, with the pool
\* either not built yet or as xbps_rpool_init builds it from the disk
InitTxn ==
    /\ cfg = FullCfg
    /\ disk \in SUBSET Repos
    /\ repo_pool \in {NullPool, xbps_rpool_init(NullPool, cfg, disk, NoFault).pool}
    /\ transd = NullTransd
    /\ pc = "idle"
    /\ idx = LoopStart
    /\ acc = StatsZero
    /\ nprep = 0
    /\ ret = NoRet
    /\ prev = NoPrev

NextPool ==
    \/ RpoolInit
    \/ RpoolSync
    \/ RpoolForeach
    \/ TransactionInit
    \/ Return

NextTxn ==
    \/ TransactionInit
    \/ QueuePkg
    \/ PrepStart
    \/ PrepResolveDeps
    \/ PrepCheckMissing
    \/ PrepDetectConflicts
    \/ PrepCheckConflicts
    \/ PrepReplace
    \/ PrepShlibs
    \/ PrepSort
    \/ PrepStatsEntry
    \/ PrepStatsFinish
    \/ PrepFreeze
    \/ Return

Next ==
    \/ RpoolInit
    \/ RpoolSync
    \/ RpoolForeach
    \/ TransactionInit
    \/ QueuePkg
    \/ PrepStart
    \/ PrepResolveDeps
    \/ PrepCheckMissing
    \/ PrepDetectConflicts
    \/ PrepCheckConflicts
    \/ PrepReplace
    \/ PrepShlibs
    \/ PrepSort
    \/ PrepStatsEntry
    \/ PrepStatsFinish
    \/ PrepFreeze
    \/ Return

\* the repository pool, on a handle that may hold a new plan
SpecPool == Init /\ [][NextPool]_vars

\* the transaction calls
SpecTxn == InitTxn /\ [][NextTxn]_vars

Spec == Init /\ [][Next]_vars


(***************************************************************************)
(* Properties.                                                             *)
(***************************************************************************)
Prepared == pc = "done" /\ ret.op = "xbps_transaction_prepare"

ReleasingPhases == {"RESOLVE_REPLACEMENTS", "TOPOSORT", "COMPUTE_STATS"}
KeepingPhases == {"RESOLVE_DEPS", "CHECK_MISSING", "CHECK_CONFLICTS", "RESOLVE_SHLIBS"}

MissingFailure == [rv |-> ENODEV, phase |-> "CHECK_MISSING"]

NetInstall(a) ==
    IF Gt64(a.instsize, a.rmsize) THEN Sub64(a.instsize, a.rmsize) ELSE U64(0)

\* C3: when statvfs succeeds, compute_transaction_stats returns ENOSPC exactly
\* when the net install size is greater than the free bytes, and otherwise
\* records disk-free-size = free bytes - net install size.
C3_DiskSpaceGate ==
    /\ (pc = "FREEZE" /\ acc.svfs.ok) =>
          /\ ~Gt64(NetInstall(acc), statvfs_free_bytes(acc.svfs))
          /\ transd.sz["disk-free-size"]
                 = Sub64(statvfs_free_bytes(acc.svfs), NetInstall(acc))
    /\ (Prepared /\ ret.phase = "COMPUTE_STATS" /\ ret.rv = ENOSPC) =>
          Gt64(NetInstall(ret.input), statvfs_free_bytes(ret.input.svfs))

\* whether the failing step `fault' is reached by xbps_rpool_init
FaultHits(fault, repos, dsk) ==
    \/ fault.kind = "create"
    \/ fault.at \in 1..Len(repos) /\ fault.kind = "plist"
    \/ /\ fault.at \in 1..Len(repos)
       /\ fault.kind \in {"dict", "uri", "index", "add"}
       /\ repos[fault.at] \in dsk

SomeParsable(repos, dsk) == \E i \in 1..Len(repos) : repos[i] \in dsk

InitRan ==
    /\ pc = "done"
    /\ ret.op = "xbps_rpool_init"
    /\ ret.input.was_null
    /\ ~cfg.null

\* C4 as stated: with a configuration and no pool yet, xbps_rpool_init
\* succeeds iff some configured repository has a parsable index, fails with
\* ENOTSUP when all are missing, and leaves xhp->repo_pool NULL when it fails.
C4_PoolFloor ==
    InitRan =>
        /\ ret.rv = 0 <=> SomeParsable(cfg.repositories, disk)
        /\ ~SomeParsable(cfg.repositories, disk) => ret.rv = ENOTSUP
        /\ ret.rv # 0 => repo_pool.null

\* C4 as amended: with a configuration and no pool yet, xbps_rpool_init
\* succeeds iff some configured repository has a parsable index and none of
\* its allocation or registration steps fails; when all the repositories are
\* missing and no such step fails it returns ENOTSUP; after every failing
\* return xhp->repo_pool is NULL, whatever had been registered.
C4_PoolFloorNoFault ==
    InitRan =>
        LET hits == FaultHits(ret.input.fault, cfg.repositories, disk)
        IN  /\ ret.rv = 0 <=> (SomeParsable(cfg.repositories, disk) /\ ~hits)
            /\ (~SomeParsable(cfg.repositories, disk) /\ ~hits) => ret.rv = ENOTSUP
            /\ ret.rv # 0 => repo_pool.null
            /\ ret.rv = 0 => ~repo_pool.null

C4_Witness ==
    /\ InitRan
    /\ ret.rv # 0
    /\ Len(ret.log) > 0
    /\ repo_pool.null

StatsRecorded == ~transd.null /\ "total-installed-size" \in DOMAIN transd.sz

\* C5: the plan records total-installed-size = I - R and total-removed-size
\* = 0 when I > R, 0 and R - I when R > I, both 0 when I = R, for the totals
\* I and R of the loop; so one of the two recorded sizes is always 0.
C5_SizeNetting ==
    /\ pc = "FREEZE" =>
          LET I == acc.instsize
              R == acc.rmsize
              ti == transd.sz["total-installed-size"]
              tr == transd.sz["total-removed-size"]
          IN  /\ Gt64(I, R) => (ti = Sub64(I, R) /\ tr = U64(0))
              /\ Gt64(R, I) => (ti = U64(0) /\ tr = Sub64(R, I))
              /\ I = R => (ti = U64(0) /\ tr = U64(0))
    /\ StatsRecorded =>
          \/ transd.sz["total-installed-size"] = U64(0)
          \/ transd.sz["total-removed-size"] = U64(0)

C5_Witness ==
    /\ pc = "FREEZE"
    /\ acc.instsize = U64(1000)
    /\ acc.rmsize = U64(400)
    /\ transd.sz["total-installed-size"] = U64(600)
    /\ transd.sz["total-removed-size"] = U64(0)


\* the declared size of an optional uint64 key, 0 when it is not declared
Declared(field) == IF field.has THEN field.val ELSE U64(0)

\* C6: in the loop of compute_transaction_stats an install or update entry
\* from a remote repository that is not in the local cache adds its
\* filename-size + 512 to the download total and to the install total (on top
\* of its installed_size), counts as a download and gets "download" set; any
\* other install or update entry adds nothing to the download total, is not
\* counted as a download and does not get the flag.
C6_DownloadAccounting ==
    [][ (pc = "COMPUTE_STATS" /\ pc' = "COMPUTE_STATS" /\ idx'.i = idx.i + 1) =>
          LET obj == transd.arr["packages"][idx.i]
              after == transd'.arr["packages"][idx.i]
              fetch == Add64(obj.filename_size.val, U64(512))
              inst == Add64(acc.instsize, Declared(obj.installed_size))
          IN  obj.transaction \in {"install", "update"} =>
                 IF xbps_repository_is_remote(obj.repository)
                        /\ ~xbps_binpkg_exists(obj)
                 THEN /\ acc'.dlsize = Add64(acc.dlsize, fetch)
                      /\ acc'.instsize = Add64(inst, fetch)
                      /\ acc'.dl_pkgcnt = acc.dl_pkgcnt + 1
                      /\ after.download
                 ELSE /\ acc'.dlsize = acc.dlsize
                      /\ acc'.instsize = inst
                      /\ acc'.dl_pkgcnt = acc.dl_pkgcnt
                      /\ ~after.download ]_vars

C6_Witness ==
    /\ pc = "COMPUTE_STATS"
    /\ idx.i = 2
    /\ LET obj == transd.arr["packages"][1]
       IN  /\ obj.pkgver = "E"
           /\ obj.transaction = "update"
           /\ obj.repository = R1
           /\ obj.download
    /\ acc.dlsize = U64(2560)
    /\ acc.instsize = U64(2960)
    /\ acc.dl_pkgcnt = 1

SyncRan ==
    /\ pc = "done"
    /\ ret.op = "xbps_rpool_sync"
    /\ ~cfg.null
    /\ ret.input.uri = NoUri

Failing(out) == { i \in DOMAIN out : ~out[i].index \/ ~out[i].files }

Last(S) == CHOOSE m \in S : \A n \in S : n <= m

\* the index fetches of a log of xbps_rpool_sync, in order
IndexFetches(log) ==
    LET sel == SelectSeq(log, LAMBDA f : f[2] = "index")
    IN  [k \in 1..Len(sel) |-> sel[k][1]]

\* C7: xbps_rpool_sync(NULL) on N configured repositories attempts all N, one
\* after the other, whatever failed before; it returns 0 iff no repository
\* failed a fetch, and otherwise the error code of the last repository that
\* failed, even if later ones succeeded.
C7_SyncBestEffort ==
    SyncRan =>
        LET out == ret.input.out
            N == Len(cfg.repositories)
            bad == Failing(out)
        IN  /\ IndexFetches(ret.log) = [k \in 1..N |-> k]
            /\ ret.rv = 0 <=> bad = {}
            /\ bad # {} =>
                  ret.rv = (IF ~out[Last(bad)].index THEN FETCH_UNAVAIL ELSE ENOENT)

C7_Witness ==
    /\ SyncRan
    /\ Len(cfg.repositories) = 3
    /\ Failing(ret.input.out) = {1, 2}
    /\ ~ret.input.out[1].index
    /\ ~ret.input.out[2].files
    /\ ret.rv = ENOENT

ForeachRan ==
    /\ pc = "done"
    /\ ret.op = "xbps_rpool_foreach"
    /\ ret.phase = "loop"

\* C8: xbps_rpool_foreach stops at the first entry whose callback sets the
\* stop flag or returns an error: the entries up to it are the ones visited
\* and its return value is what the caller gets; with 3 entries and a stop on
\* the second, 2 entries are visited and 0 is returned.
C8_ForeachEarlyStop ==
    ForeachRan =>
        LET cb == ret.input.cb
            n == Len(repo_pool.entries)
            stops == { i \in 1..n : cb[i].done \/ cb[i].rv # 0 }
            first == CHOOSE m \in stops : \A k \in stops : m <= k
        IN  IF stops = {}
            THEN ret.log = [k \in 1..n |-> k] /\ ret.rv = 0
            ELSE ret.log = [k \in 1..first |-> k] /\ ret.rv = cb[first].rv

C8_Witness ==
    /\ ForeachRan
    /\ ~ret.input.was_null
    /\ Len(repo_pool.entries) = 3
    /\ ret.input.cb[1] = [rv |-> 0, done |-> FALSE]
    /\ ret.input.cb[2] = [rv |-> 0, done |-> TRUE]
    /\ ret.log = << 1, 2 >>
    /\ ret.rv = 0

\* C9: xbps_transaction_init on a handle that has a plan returns 0 and leaves
\* the plan, with its unsorted_deps, missing_deps and conflicts, as it was.
C9_InitKeepsPlan ==
    [][ (Idle /\ ~transd.null /\ ret'.op = "xbps_transaction_init") =>
          (ret'.rv = 0 /\ transd' = transd) ]_vars

C9_Witness ==
    /\ pc = "done"
    /\ ret.op = "xbps_transaction_init"
    /\ ~ret.input.was_null
    /\ ret.rv = 0
    /\ Len(GetArray(transd, "unsorted_deps")) > 0
    /\ Len(GetArray(transd, "missing_deps")) > 0

PkgNames(array) == [k \in 1..Len(array) |-> array[k].pkgver]

\* the plan was built from the single request "install A"
OnlyInstallA(array) ==
    \A k \in 1..Len(array) :
        ~array[k].automatic =>
            (array[k].pkgver = "A" /\ array[k].transaction = "install")

\* C10: when the caller queued only the install of A, A needs B and B needs
\* C, a successful xbps_transaction_prepare leaves "packages" = C, B, A.
C10_DependencyClosure ==
    (Prepared /\ ret.rv = 0 /\ GetArray(transd, "packages") # << >>
        /\ "A" \in Names(GetArray(transd, "packages"))
        /\ OnlyInstallA(GetArray(transd, "packages"))) =>
        PkgNames(GetArray(transd, "packages")) = << "C", "B", "A" >>

C10_Witness ==
    /\ Prepared
    /\ ret.rv = 0
    /\ PkgNames(GetArray(transd, "packages")) = << "C", "B", "A" >>
    /\ \A k \in 1..3 : GetArray(transd, "packages")[k].transaction = "install"

WorkingArrays == {"unsorted_deps", "missing_deps", "conflicts"}

\* C11: after every successful xbps_transaction_prepare the plan has none of
\* the keys unsorted_deps, missing_deps and conflicts, the last step of the
\* call having removed the three of them, and the plan is immutable.
C11_FreezeRemovesWorkingArrays ==
    (Prepared /\ ret.rv = 0) =>
        /\ transd.immutable
        /\ WorkingArrays \cap DOMAIN transd.arr = {}

PhaseSeq ==
    << "RESOLVE_DEPS", "CHECK_MISSING", "DETECT_CONFLICTS", "CHECK_CONFLICTS",
       "RESOLVE_REPLACEMENTS", "RESOLVE_SHLIBS", "TOPOSORT", "COMPUTE_STATS",
       "FREEZE" >>

PhaseNo(p) == CHOOSE k \in 1..Len(PhaseSeq) : PhaseSeq[k] = p

InPhase(p) == \E k \in 1..Len(PhaseSeq) : PhaseSeq[k] = p

\* C12: within a run of xbps_transaction_prepare the phases start in the
\* order of PhaseSeq, each at most once: a run begins with RESOLVE_DEPS, and
\* a phase is left either for the next one or for the return to the caller,
\* which is the only way out of a failed phase.  Conflict detection starts
\* only with missing_deps empty, replacement, shlibs and sort only with
\* conflicts empty as well, stats and freeze only when the sort made
\* "packages".
C12_PhaseOrder ==
    [][ /\ (pc' # pc /\ InPhase(pc')) =>
              IF PhaseNo(pc') = 1 THEN pc = "idle"
              ELSE InPhase(pc) /\ PhaseNo(pc') = PhaseNo(pc) + 1
        /\ (InPhase(pc) /\ pc' # pc /\ ~InPhase(pc')) =>
              (pc' = "done" /\ ret'.op = "xbps_transaction_prepare")
        /\ (InPhase(pc) /\ pc' = "done" /\ pc # "FREEZE") => ret'.rv # 0
        /\ (InPhase(pc') /\ PhaseNo(pc') >= 3) =>
              Len(GetArray(transd', "missing_deps")) = 0
        /\ (InPhase(pc') /\ PhaseNo(pc') >= 5) =>
              Len(GetArray(transd', "conflicts")) = 0
        /\ (InPhase(pc') /\ PhaseNo(pc') >= 8) =>
              "packages" \in DOMAIN transd'.arr ]_vars

C12_Witness ==
    /\ pc = "FREEZE"
    /\ nprep = 2
    /\ prev.phase = "RESOLVE_SHLIBS"
    /\ Len(GetArray(transd, "packages")) >= 2

\* the entry of "packages" that a step of the loop of
\* compute_transaction_stats handles
StatsStep ==
    /\ pc = "COMPUTE_STATS"
    /\ "packages" \in DOMAIN transd.arr
    /\ idx.i <= Len(transd.arr["packages"])

\* C13: in the loop of compute_transaction_stats the remove total grows by
\* the installed size recorded for the package exactly when the entry is a
\* remove, or an update without preserve, and the package has installed
\* metadata; it stays as it is for an update with preserve, an install and an
\* entry without installed metadata; a configure entry adds one to the
\* configure count and changes no size total and no download count.
C13_RemoveAccounting ==
    [][ StatsStep =>
          LET obj == transd.arr["packages"][idx.i]
              pkg_metad == xbps_pkgdb_get_pkg_metadata(obj.pkgver)
              goes == \/ obj.transaction = "remove"
                      \/ obj.transaction = "update" /\ ~obj.preserve
          IN  /\ acc'.rmsize =
                    IF goes /\ pkg_metad.found
                    THEN Add64(acc.rmsize, Declared(pkg_metad.installed_size))
                    ELSE acc.rmsize
              /\ obj.transaction = "configure" =>
                    /\ acc'.cf_pkgcnt = acc.cf_pkgcnt + 1
                    /\ acc'.instsize = acc.instsize
                    /\ acc'.dlsize = acc.dlsize
                    /\ acc'.rmsize = acc.rmsize
                    /\ acc'.dl_pkgcnt = acc.dl_pkgcnt ]_vars

CountKeys ==
    {"total-install-pkgs", "total-update-pkgs", "total-configure-pkgs",
     "total-remove-pkgs", "total-download-pkgs"}

SizeKeys == {"total-installed-size", "total-download-size", "total-removed-size"}

\* statvfs was called with the locals a and failed
StatvfsFailed(a) == a.svfs.called /\ ~a.svfs.ok

\* C14: when statvfs fails, compute_transaction_stats returns 0 whatever the
\* net install size is: the counts and the three size totals are recorded,
\* disk-free-size is not set, and xbps_transaction_prepare freezes the plan
\* and returns 0; no failure of the stats phase comes after a failed statvfs.
C14_StatvfsBestEffort ==
    /\ (pc = "FREEZE" /\ StatvfsFailed(acc)) =>
          /\ DOMAIN transd.cnt = CountKeys
          /\ DOMAIN transd.sz = SizeKeys
          /\ transd.cnt["total-install-pkgs"] = acc.inst_pkgcnt
          /\ transd.cnt["total-download-pkgs"] = acc.dl_pkgcnt
          /\ transd.sz["total-installed-size"] = NetInstall(acc)
          /\ transd.sz["total-download-size"] = acc.dlsize
    /\ (Prepared /\ ret.phase = "FREEZE" /\ StatvfsFailed(ret.input)) =>
          /\ ret.rv = 0
          /\ transd.immutable
          /\ DOMAIN transd.sz = SizeKeys
    /\ (Prepared /\ ret.phase = "COMPUTE_STATS") => ~StatvfsFailed(ret.input)

C14_Witness ==
    /\ Prepared
    /\ ret.phase = "FREEZE"
    /\ ret.rv = 0
    /\ StatvfsFailed(ret.input)
    /\ transd.sz["total-installed-size"] = U64(2960)
    /\ "disk-free-size" \notin DOMAIN transd.sz

PoolUris(pool) == [k \in 1..Len(pool.entries) |-> pool.entries[k].uri]

\* the configured repositories whose index is on disk, in configured order
Parsable(repos, dsk) == SelectSeq(repos, LAMBDA u : u \in dsk)

\* C15: xbps_rpool_init on a handle whose pool exists returns 0 and leaves
\* the pool as it is, without reading an index again: the result is the same
\* with no configuration and with any set of index files on disk.  On a
\* handle without pool and without configuration it returns ENOTSUP and the
\* pool stays NULL.
C15_InitIdempotent ==
    [][ (Idle /\ ret'.op = "xbps_rpool_init") =>
          /\ ~repo_pool.null =>
                /\ ret'.rv = 0
                /\ repo_pool' = repo_pool
                /\ \A c \in {cfg, NullCfg}, dsk \in SUBSET Repos :
                      LET r == xbps_rpool_init(repo_pool, c, dsk, NoFault)
                      IN  r.rv = 0 /\ r.pool = repo_pool
          /\ (repo_pool.null /\ cfg.null) =>
                (ret'.rv = ENOTSUP /\ repo_pool'.null) ]_vars

\* a second xbps_rpool_init, after xbps_rpool_sync fetched an index that the
\* pool was built without
C15_Witness ==
    /\ pc = "done"
    /\ ret.op = "xbps_rpool_init"
    /\ ~ret.input.was_null
    /\ ret.rv = 0
    /\ PoolUris(repo_pool) # Parsable(cfg.repositories, disk)

\* xbps_rpool_foreach has returned from the failure branch of its
\* xbps_rpool_init
ForeachInitFailed ==
    /\ pc = "done"
    /\ ret.op = "xbps_rpool_foreach"
    /\ ret.phase = "init"

\* C16: xbps_rpool_foreach on a handle without pool runs xbps_rpool_init
\* first.  When that fails, ENOTSUP for no usable repository included, the
\* callback is not called, the caller gets the error code of the init and the
\* pool is NULL afterwards; when it succeeds the pool it built is the one
\* iterated.  A later xbps_rpool_foreach finds the pool NULL and so runs the
\* init again.
C16_ForeachInitOnDemand ==
    /\ ForeachInitFailed =>
          /\ ret.input.was_null
          /\ ret.rv # 0
          /\ ret.rv = xbps_rpool_init(NullPool, cfg, disk, ret.input.fault).rv
          /\ ret.log = << >>
          /\ repo_pool.null
    /\ (ForeachRan /\ ret.input.was_null) =>
          LET r == xbps_rpool_init(NullPool, cfg, disk, ret.input.fault)
          IN  r.rv = 0 /\ repo_pool = r.pool /\ ~repo_pool.null
    /\ (pc = "done" /\ ret.op = "xbps_rpool_foreach"
            /\ ~cfg.null /\ ret.input.fault = NoFault) =>
          IF Parsable(cfg.repositories, disk) = << >>
          THEN ret.phase = "init" /\ ret.rv = ENOTSUP
          ELSE ret.phase = "loop"

C16_Witness ==
    /\ ForeachInitFailed
    /\ ret.rv = ENOTSUP
    /\ Len(cfg.repositories) = 2
    /\ ret.input.fault = NoFault
    /\ repo_pool.null

\* C17: xbps_transaction_prepare on a handle without plan, never initialized
\* or released by a failure, returns ENXIO at once: no phase starts, no plan
\* is created and the pool is not touched.
C17_PrepareWithoutPlan ==
    [][ (Idle /\ transd.null /\ nprep' = nprep + 1) =>
          /\ pc' = "done"
          /\ ret'.op = "xbps_transaction_prepare"
          /\ ret'.rv = ENXIO
          /\ ret'.phase = "ENTRY"
          /\ transd' = transd
          /\ repo_pool' = repo_pool ]_vars

\* ENXIO from the call that follows a failure which released the plan
C17_Witness ==
    /\ Prepared
    /\ ret.rv = ENXIO
    /\ transd.null
    /\ prev.rv # 0
    /\ prev.phase \in ReleasingPhases

\* C18: xbps_rpool_sync leaves the handle's pool, NULL or built, and its plan
\* as they were, whatever its argument is and whichever fetches fail.  With
\* a repository named, the fetches are those of the configured repositories
\* equal to the name, each occurrence in turn; a name that no configured
\* repository has gives no fetch at all and the return value 0.
C18_SyncFrame ==
    [][ (Idle /\ ret'.op = "xbps_rpool_sync") =>
          LET uri == ret'.input.uri
              repos == cfg.repositories
              named == { i \in 1..Len(repos) : repos[i] = uri }
          IN  /\ repo_pool' = repo_pool
              /\ transd' = transd
              /\ cfg' = cfg
              /\ (~cfg.null /\ uri # NoUri) =>
                    /\ IndexFetches(ret'.log) =
                          SelectSeq([k \in 1..Len(repos) |-> k],
                                    LAMBDA i : i \in named)
                    /\ named = {} => (ret'.log = << >> /\ ret'.rv = 0) ]_vars

\* a sync of one repository that is configured twice, on a handle with a
\* pool and a plan; its first fetch fails
C18_Witness ==
    /\ pc = "done"
    /\ ret.op = "xbps_rpool_sync"
    /\ ret.input.uri = R2
    /\ cfg.repositories = << R2, R1, R2 >>
    /\ IndexFetches(ret.log) = << 1, 3 >>
    /\ ret.rv # 0
    /\ ~repo_pool.null
    /\ ~transd.null

\* C19: after a successful xbps_rpool_init that built the pool, its entries
\* are the configured repositories with a parsable index, one entry for each
\* configured occurrence, in configured order, each with the index of its
\* repository, and the pool is immutable; an xbps_rpool_foreach whose
\* callback never stops and never fails visits each entry once, in order.
C19_PoolContents ==
    /\ (InitRan /\ ret.rv = 0) =>
          /\ PoolUris(repo_pool) = Parsable(cfg.repositories, disk)
          /\ \A k \in 1..Len(repo_pool.entries) :
                repo_pool.entries[k].index = RepoIndex(repo_pool.entries[k].uri)
          /\ repo_pool.immutable
    /\ (ForeachRan /\ \A k \in DOMAIN ret.input.cb :
                         ret.input.cb[k] = [rv |-> 0, done |-> FALSE]) =>
          /\ ret.log = [k \in 1..Len(repo_pool.entries) |-> k]
          /\ ret.rv = 0
    /\ (ForeachRan /\ ret.input.was_null /\ ret.input.fault = NoFault) =>
          PoolUris(repo_pool) = Parsable(cfg.repositories, disk)

C19_Witness ==
    /\ InitRan
    /\ ret.rv = 0
    /\ cfg.repositories = << R2, R1, R2 >>
    /\ PoolUris(repo_pool) = << R2, R2 >>
    /\ repo_pool.immutable

Actions == {"install", "update", "remove", "configure"}

\* the number of entries of array whose action is tract
CountOf(array, tract) ==
    Cardinality({ k \in 1..Len(array) : array[k].transaction = tract })

\* C20: for a final package list whose entries all have an action among
\* install, update, remove and configure, the counts that
\* compute_transaction_stats records are the numbers of entries of each
\* action, so that the four of them add up to the length of the list;
\* total-download-pkgs is at most installs + updates, and
\* total-download-size is 0 when total-download-pkgs is 0.
C20_CountInvariant ==
    (StatsRecorded /\ DOMAIN transd.cnt = CountKeys) =>
        LET packages == GetArray(transd, "packages")
            cnt == transd.cnt
        IN  (\A k \in 1..Len(packages) : packages[k].transaction \in Actions) =>
               /\ cnt["total-install-pkgs"] = CountOf(packages, "install")
               /\ cnt["total-update-pkgs"] = CountOf(packages, "update")
               /\ cnt["total-remove-pkgs"] = CountOf(packages, "remove")
               /\ cnt["total-configure-pkgs"] = CountOf(packages, "configure")
               /\ cnt["total-install-pkgs"] + cnt["total-update-pkgs"]
                    + cnt["total-remove-pkgs"] + cnt["total-configure-pkgs"]
                  = Len(packages)
               /\ cnt["total-download-pkgs"]
                    <= cnt["total-install-pkgs"] + cnt["total-update-pkgs"]
               /\ cnt["total-download-pkgs"] = 0 =>
                     transd.sz["total-download-size"] = U64(0)

C20_Witness ==
    /\ StatsRecorded
    /\ Len(GetArray(transd, "packages")) = 4
    /\ transd.cnt["total-install-pkgs"] = 3
    /\ transd.cnt["total-configure-pkgs"] = 1
    /\ transd.cnt["total-download-pkgs"] = 0
    /\ transd.sz["total-download-size"] = U64(0)

=============================================================================
